---- MODULE Spec2Model ----
(***************************************************************************)
(* The Bancor formula, Python port of the Solidity contract                *)
(* (src/solidity/python/FormulaSolidityPort/__init__.py).                  *)
(*                                                                         *)
(* The port computes on Python integers, which are unbounded.  A value is  *)
(* held here as the tuple of its base-4096 digits, least significant       *)
(* first, with no leading zero digit; 0 is <<>>.  One digit is three       *)
(* hexadecimal digits of the source's constants.  Small integers (a        *)
(* precision, a loop index, a reserve ratio) are plain integers.           *)
(***************************************************************************)
EXTENDS Integers, Sequences, FiniteSets, TLC

LimbBits == 12
Base == 4096

Max(m, n) == IF m >= n THEN m ELSE n
Min(m, n) == IF m <= n THEN m ELSE n

\* The tuple a function on 1..n denotes.
Force(f) == f \o <<>>

\* e, once v has a value: an operator's argument is evaluated where it is
\* used, and a loop that only hands its state on would leave a chain of
\* pending evaluations as long as the loop.
Eval(v, e) == IF v = v THEN e ELSE e

\* F of v: a local of the source whose value is used more than once is
\* bound by With rather than by LET.
With(v, F(_)) == F(v)

Digit(a, k) == IF k <= Len(a) THEN a[k] ELSE 0

RECURSIVE Trim(_)
Trim(a) ==
  IF Len(a) = 0 \/ a[Len(a)] # 0 THEN a ELSE Trim(SubSeq(a, 1, Len(a) - 1))

RECURSIVE Reverse(_)
Reverse(a) == IF Len(a) = 0 THEN <<>> ELSE Append(Reverse(Tail(a)), Head(a))

\* A hexadecimal literal of the source, written three digits a group, most
\* significant group first.
H(groups) == Trim(Reverse(groups))

\* The carry through the digits lo..hi of the column sums c (each below
\* 2^30); st = [carry, acc].  The range is halved rather than walked, which
\* keeps the evaluation shallow.
RECURSIVE CarryFrom(_, _, _, _)
CarryFrom(c, lo, hi, st) ==
  IF lo > hi THEN st
  ELSE IF lo = hi
  THEN LET v == c[lo] + st.carry
       IN  [carry |-> v \div Base, acc |-> Append(st.acc, v % Base)]
  ELSE LET mid  == (lo + hi) \div 2
           half == CarryFrom(c, lo, mid, st)
       IN  Eval(half, CarryFrom(c, mid + 1, hi, half))

\* The value of the column sums c, digit by digit.
Norm(c) ==
  LET st == CarryFrom(c, 1, Len(c), [carry |-> 0, acc |-> <<>>])
  IN  Trim(st.acc \o <<st.carry % Base, st.carry \div Base>>)

\* A small non-negative integer as a value.
FromInt(n) == Norm(<<n>>)

RECURSIVE CmpFrom(_, _, _)
CmpFrom(a, b, i) ==
  IF i = 0 THEN 0
  ELSE IF a[i] < b[i] THEN -1
  ELSE IF a[i] > b[i] THEN 1
  ELSE CmpFrom(a, b, i - 1)

Cmp(a, b) ==
  IF Len(a) < Len(b) THEN -1
  ELSE IF Len(a) > Len(b) THEN 1
  ELSE CmpFrom(a, b, Len(a))

Lt(a, b) == Cmp(a, b) < 0
Le(a, b) == Cmp(a, b) <= 0
Gt(a, b) == Cmp(a, b) > 0
Ge(a, b) == Cmp(a, b) >= 0
MaxOf(a, b) == IF Ge(a, b) THEN a ELSE b

Add(a, b) ==
  Norm(Force([k \in 1..Max(Len(a), Len(b)) |-> Digit(a, k) + Digit(b, k)]))

\* The borrow through the digits lo..hi of a - b; st = [borrow, acc].
RECURSIVE SubFrom(_, _, _, _, _)
SubFrom(a, b, lo, hi, st) ==
  IF lo > hi THEN st
  ELSE IF lo = hi
  THEN LET v == a[lo] - Digit(b, lo) - st.borrow
       IN  [borrow |-> IF v < 0 THEN 1 ELSE 0,
            acc    |-> Append(st.acc, IF v < 0 THEN v + Base ELSE v)]
  ELSE LET mid  == (lo + hi) \div 2
           half == SubFrom(a, b, lo, mid, st)
       IN  Eval(half, SubFrom(a, b, mid + 1, hi, half))

\* a - b, for a >= b.
Sub(a, b) == Trim(SubFrom(a, b, 1, Len(a), [borrow |-> 0, acc |-> <<>>]).acc)

\* The sum of a[i] * b[k + 1 - i] for i in lo..hi.
RECURSIVE ColSum(_, _, _, _, _)
ColSum(a, b, k, lo, hi) ==
  IF lo > hi THEN 0
  ELSE IF lo = hi THEN a[lo] * b[k + 1 - lo]
  ELSE ColSum(a, b, k, lo, (lo + hi) \div 2)
         + ColSum(a, b, k, (lo + hi) \div 2 + 1, hi)

Mul(a, b) ==
  IF Len(a) = 0 \/ Len(b) = 0 THEN <<>>
  ELSE Norm(Force([k \in 1..(Len(a) + Len(b) - 1) |->
              ColSum(a, b, k, Max(1, k + 1 - Len(b)), Min(k, Len(a)))]))

\* a >> n
Shr(a, n) ==
  LET q == n \div LimbBits
      p == 2 ^ (n % LimbBits)
  IN  IF q >= Len(a) THEN <<>>
      ELSE Trim(Force([i \in 1..(Len(a) - q) |->
             (a[i + q] \div p) + (Digit(a, i + q + 1) % p) * (Base \div p)]))

\* a << n
Shl(a, n) ==
  IF Len(a) = 0 THEN <<>>
  ELSE Force([i \in 1..(n \div LimbBits) |-> 0])
         \o Norm(Force([i \in 1..Len(a) |-> a[i] * 2 ^ (n % LimbBits)]))

RECURSIVE TopBit(_)
TopBit(d) == IF d <= 1 THEN 0 ELSE 1 + TopBit(d \div 2)

\* The largest q <= guess with b * q <= r.
RECURSIVE QDigit(_, _, _)
QDigit(r, b, guess) ==
  IF Gt(Mul(b, FromInt(guess)), r) THEN QDigit(r, b, guess - 1) ELSE guess

\* One digit of the long division of a by b: a's digit i is brought down to
\* the running remainder st.rem and the quotient digit put before st.quo.
DivDigit(a, b, i, st) ==
  LET r   == Trim(<<a[i]>> \o st.rem)
      top == Digit(r, Len(b) + 1) * Base + Digit(r, Len(b))
  IN  With(IF Len(r) < Len(b) THEN 0
           ELSE QDigit(r, b, Min(Base - 1, top \div b[Len(b)])),
           LAMBDA q :
             [rem |-> IF q = 0 THEN r ELSE Sub(r, Mul(b, FromInt(q))),
              quo |-> <<q>> \o st.quo])

\* The digits hi, hi - 1, ..., lo of the long division of a by b.
RECURSIVE DivFrom(_, _, _, _, _)
DivFrom(a, b, hi, lo, st) ==
  IF hi < lo THEN st
  ELSE IF hi = lo THEN DivDigit(a, b, hi, st)
  ELSE LET mid  == (hi + lo) \div 2
           half == DivFrom(a, b, hi, mid + 1, st)
       IN  Eval(half, DivFrom(a, b, mid, lo, half))

\* The number of binary digits of a.
BitLength(a) ==
  IF Len(a) = 0 THEN 0 ELSE LimbBits * (Len(a) - 1) + TopBit(a[Len(a)]) + 1

\* floor(a / b), for b > 0: a shift when b is a power of two, and else long
\* division with both shifted so that b's top digit is at least Base / 2.
Div(a, b) ==
  IF b = Shl(<<1>>, BitLength(b) - 1) THEN Shr(a, BitLength(b) - 1)
  ELSE LET sh == (LimbBits - 1) - TopBit(b[Len(b)])
           an == Shl(a, sh)
       IN  Trim(DivFrom(an, Shl(b, sh), Len(an), 1,
                        [rem |-> <<>>, quo |-> <<>>]).quo)

(***************************************************************************)
(* Module-level constants, lines 3-21.                                     *)
(***************************************************************************)
MAX_CRR == 1000000
MIN_PRECISION == 32
MAX_PRECISION == 127
LN2_EXPONENT == 122
ZERO == <<>>
ONE == FromInt(1)
FIXED_1 == H(<<\h080, \h000, \h000, \h000, \h000, \h000, \h000, \h000, \h000, \h000, \h000>>)
FIXED_2 == H(<<\h100, \h000, \h000, \h000, \h000, \h000, \h000, \h000, \h000, \h000, \h000>>)
MAX_NUM == H(<<\h1ff, \hfff, \hfff, \hfff, \hfff, \hfff, \hfff, \hfff, \hfff, \hfff, \hfff>>)
LN2_MANTISSA == H(<<\h002, \hc5c, \h85f, \hdf4, \h73d, \he6a, \hf27, \h8ec, \he60, \h0fc, \hbda>>)

\* 1 << 256, the bound of safeMul and safeAdd.
TWO256 == Shl(ONE, 256)

(***************************************************************************)
(* maxExpArray after BancorFormula() has run: [0] * 128 with the entries   *)
(* 32..127 assigned (entries 0..31 are commented out in the source and     *)
(* stay 0).  maxExpTable[k + 1] is the source's maxExpArray[k].            *)
(***************************************************************************)
maxExpTable ==
  << <<>>, <<>>, <<>>, <<>>, <<>>, <<>>, <<>>, <<>>,
     <<>>, <<>>, <<>>, <<>>, <<>>, <<>>, <<>>, <<>>,
     <<>>, <<>>, <<>>, <<>>, <<>>, <<>>, <<>>, <<>>,
     <<>>, <<>>, <<>>, <<>>, <<>>, <<>>, <<>>, <<>>,
     H(<<\h001, \hc35, \hfed, \hd14, \hfff, \hfff, \hfff, \hfff, \hfff, \hfff, \hfff, \hfff>>),
     H(<<\h001, \hb0c, \he43, \hb32, \h3ff, \hfff, \hfff, \hfff, \hfff, \hfff, \hfff, \hfff>>),
     H(<<\h001, \h9f0, \h028, \hec1, \hfff, \hfff, \hfff, \hfff, \hfff, \hfff, \hfff, \hfff>>),
     H(<<\h001, \h8de, \hd91, \hf0e, \h7ff, \hfff, \hfff, \hfff, \hfff, \hfff, \hfff, \hfff>>),
     H(<<\h001, \h7d8, \hec7, \hf04, \h17f, \hfff, \hfff, \hfff, \hfff, \hfff, \hfff, \hfff>>),
     H(<<\h001, \h6dd, \hc65, \h56c, \hdbf, \hfff, \hfff, \hfff, \hfff, \hfff, \hfff, \hfff>>),
     H(<<\h001, \h5ec, \hf52, \h776, \ha1f, \hfff, \hfff, \hfff, \hfff, \hfff, \hfff, \hfff>>),
     H(<<\h001, \h506, \h0c2, \h56c, \hb2f, \hfff, \hfff, \hfff, \hfff, \hfff, \hfff, \hfff>>),
     H(<<\h001, \h428, \ha2f, \h98d, \h72f, \hfff, \hfff, \hfff, \hfff, \hfff, \hfff, \hfff>>),
     H(<<\h001, \h354, \h559, \h8e5, \hc23, \hfff, \hfff, \hfff, \hfff, \hfff, \hfff, \hfff>>),
     H(<<\h001, \h288, \hc41, \h61c, \he1d, \hfff, \hfff, \hfff, \hfff, \hfff, \hfff, \hfff>>),
     H(<<\h001, \h1c5, \h927, \h61c, \h666, \hfff, \hfff, \hfff, \hfff, \hfff, \hfff, \hfff>>),
     H(<<\h001, \h10a, \h688, \h680, \ha75, \h7ff, \hfff, \hfff, \hfff, \hfff, \hfff, \hfff>>),
     H(<<\h001, \h056, \hf1b, \h5be, \hdf7, \h7ff, \hfff, \hfff, \hfff, \hfff, \hfff, \hfff>>),
     H(<<\hfaa, \hdce, \hcee, \hff8, \hbff, \hfff, \hfff, \hfff, \hfff, \hfff, \hfff>>),
     H(<<\hf05, \hdc6, \hb27, \heda, \hdff, \hfff, \hfff, \hfff, \hfff, \hfff, \hfff>>),
     H(<<\he67, \ha5a, \h25d, \ha41, \h07f, \hfff, \hfff, \hfff, \hfff, \hfff, \hfff>>),
     H(<<\hdcf, \hf11, \h5b1, \h4ee, \hdff, \hfff, \hfff, \hfff, \hfff, \hfff, \hfff>>),
     H(<<\hd3e, \h7a3, \h924, \h312, \h39f, \hfff, \hfff, \hfff, \hfff, \hfff, \hfff>>),
     H(<<\hcb2, \hff5, \h29e, \hb71, \he4f, \hfff, \hfff, \hfff, \hfff, \hfff, \hfff>>),
     H(<<\hc2d, \h415, \hc3d, \hb97, \h4af, \hfff, \hfff, \hfff, \hfff, \hfff, \hfff>>),
     H(<<\hbad, \h03e, \h7d8, \h83f, \h69b, \hfff, \hfff, \hfff, \hfff, \hfff, \hfff>>),
     H(<<\hb32, \h0d0, \h3b2, \hc34, \h3d5, \hfff, \hfff, \hfff, \hfff, \hfff, \hfff>>),
     H(<<\habc, \h252, \h04e, \h028, \h28d, \hfff, \hfff, \hfff, \hfff, \hfff, \hfff>>),
     H(<<\ha4b, \h16f, \h74e, \he4b, \hb20, \h7ff, \hfff, \hfff, \hfff, \hfff, \hfff>>),
     H(<<\h9de, \haf7, \h36a, \hc1f, \h569, \hfff, \hfff, \hfff, \hfff, \hfff, \hfff>>),
     H(<<\h976, \hbd9, \h952, \hc7a, \ha95, \h7ff, \hfff, \hfff, \hfff, \hfff, \hfff>>),
     H(<<\h913, \h127, \h192, \h2ea, \ha60, \h6ff, \hfff, \hfff, \hfff, \hfff, \hfff>>),
     H(<<\h8b3, \h80f, \h355, \h866, \h8c4, \h6ff, \hfff, \hfff, \hfff, \hfff, \hfff>>),
     H(<<\h857, \hddf, \h011, \h7ef, \ha21, \h5bf, \hfff, \hfff, \hfff, \hfff, \hfff>>),
     H(<<\h7ff, \hfff, \hfff, \hfff, \hfff, \hfff, \hfff, \hfff, \hfff, \hfff, \hfff>>),
     H(<<\h7ab, \hbf6, \hf6a, \hbb9, \hd08, \h7ff, \hfff, \hfff, \hfff, \hfff, \hfff>>),
     H(<<\h75a, \hf62, \hcba, \hc95, \hf7d, \hfa7, \hfff, \hfff, \hfff, \hfff, \hfff>>),
     H(<<\h70d, \h7fb, \h745, \h2e1, \h87a, \hc13, \hfff, \hfff, \hfff, \hfff, \hfff>>),
     H(<<\h6c3, \h390, \hecc, \h8af, \h379, \h295, \hfff, \hfff, \hfff, \hfff, \hfff>>),
     H(<<\h67c, \h00a, \h3b0, \h7ff, \hc01, \hfd6, \hfff, \hfff, \hfff, \hfff, \hfff>>),
     H(<<\h637, \hb64, \h7c3, \h9cb, \hb9d, \h3d2, \h7ff, \hfff, \hfff, \hfff, \hfff>>),
     H(<<\h5f6, \h3b1, \hfc1, \h04d, \hbd3, \h958, \h7ff, \hfff, \hfff, \hfff, \hfff>>),
     H(<<\h5b7, \h719, \h55b, \h36e, \h12f, \h723, \h5ff, \hfff, \hfff, \hfff, \hfff>>),
     H(<<\h57b, \h3d4, \h9dd, \ha84, \h556, \hd6f, \h6ff, \hfff, \hfff, \hfff, \hfff>>),
     H(<<\h541, \h830, \h95b, \h2c8, \hece, \hcf3, \h0ff, \hfff, \hfff, \hfff, \hfff>>),
     H(<<\h50a, \h28b, \he63, \h5ca, \h2b8, \h88f, \h77f, \hfff, \hfff, \hfff, \hfff>>),
     H(<<\h4d5, \h156, \h639, \h708, \hc9d, \hb33, \hc3f, \hfff, \hfff, \hfff, \hfff>>),
     H(<<\h4a2, \h310, \h587, \h387, \h5bd, \h52d, \hfdf, \hfff, \hfff, \hfff, \hfff>>),
     H(<<\h471, \h649, \hd87, \h199, \haa9, \h907, \h56f, \hfff, \hfff, \hfff, \hfff>>),
     H(<<\h442, \h9a2, \h1a0, \h29d, \h4c1, \h457, \hcfb, \hfff, \hfff, \hfff, \hfff>>),
     H(<<\h415, \hbc6, \hd6f, \hb7d, \hd71, \haf2, \hcb3, \hfff, \hfff, \hfff, \hfff>>),
     H(<<\h3ea, \hb73, \hb3b, \hbfe, \h282, \h243, \hce1, \hfff, \hfff, \hfff, \hfff>>),
     H(<<\h3c1, \h771, \hac9, \hfb6, \hb4c, \h18e, \h229, \hfff, \hfff, \hfff, \hfff>>),
     H(<<\h399, \he96, \h897, \h690, \h418, \hf78, \h525, \h7ff, \hfff, \hfff, \hfff>>),
     H(<<\h373, \hfc4, \h56c, \h53b, \hb77, \h9bf, \h0ea, \h9ff, \hfff, \hfff, \hfff>>),
     H(<<\h34f, \h9e8, \he49, \h0c4, \h8e6, \h7e6, \hab8, \hbff, \hfff, \hfff, \hfff>>),
     H(<<\h32c, \hbfd, \h4a7, \hadc, \h790, \h560, \hb33, \h37f, \hfff, \hfff, \hfff>>),
     H(<<\h30b, \h505, \h70f, \h6e5, \hd2a, \hcca, \h946, \h13f, \hfff, \hfff, \hfff>>),
     H(<<\h2eb, \h40f, \h9f6, \h20f, \hda6, \hb56, \hc28, \h61f, \hfff, \hfff, \hfff>>),
     H(<<\h2cc, \h834, \h0ec, \hb0d, \h0f5, \h20a, \h6af, \h58f, \hfff, \hfff, \hfff>>),
     H(<<\h2af, \h094, \h813, \h80a, \h0a3, \h5cf, \h1ba, \h02f, \hfff, \hfff, \hfff>>),
     H(<<\h292, \hc5b, \hdd3, \hb92, \hec8, \h102, \h87b, \h1b3, \hfff, \hfff, \hfff>>),
     H(<<\h277, \habd, \hcda, \hb07, \hd5a, \h77a, \hc6d, \h6b9, \hfff, \hfff, \hfff>>),
     H(<<\h25d, \haf6, \h654, \hb1e, \haa5, \h5fd, \h64d, \hf5e, \hfff, \hfff, \hfff>>),
     H(<<\h244, \hc49, \hc64, \h8ba, \ha98, \h192, \hdce, \h88b, \h7ff, \hfff, \hfff>>),
     H(<<\h22c, \he03, \hcd5, \h619, \ha31, \h1b2, \h471, \h268, \hbff, \hfff, \hfff>>),
     H(<<\h215, \hf77, \hc04, \h5fb, \he88, \h565, \h4a4, \h4a0, \hfff, \hfff, \hfff>>),
     H(<<\h1ff, \hfff, \hfff, \hfff, \hfff, \hfff, \hfff, \hfff, \hfff, \hfff, \hfff>>),
     H(<<\h1ea, \hefd, \hbda, \haee, \h742, \h1fc, \h4d3, \hede, \h5ff, \hfff, \hfff>>),
     H(<<\h1d6, \hbd8, \hb2e, \hb25, \h7df, \h7e8, \hca5, \h7b0, \h9bf, \hfff, \hfff>>),
     H(<<\h1c3, \h5fe, \hdd1, \h4b8, \h61e, \hb04, \h43f, \h7f1, \h33f, \hfff, \hfff>>),
     H(<<\h1b0, \hce4, \h3b3, \h22b, \hcde, \h4a5, \h6e8, \hada, \h5af, \hfff, \hfff>>),
     H(<<\h19f, \h002, \h8ec, \h1ff, \hf00, \h7f5, \ha19, \h5a3, \h9df, \hfff, \hfff>>),
     H(<<\h18d, \hed9, \h1f0, \he72, \hee7, \h4f4, \h9b1, \h5ba, \h527, \hfff, \hfff>>),
     H(<<\h17d, \h8ec, \h7f0, \h413, \h6f4, \he56, \h15f, \hd41, \ha63, \hfff, \hfff>>),
     H(<<\h16d, \hdc6, \h556, \hcdb, \h84b, \hdc8, \hd12, \hd22, \he6f, \hfff, \hfff>>),
     H(<<\h15e, \hcf5, \h277, \h6a1, \h155, \hb5b, \hd83, \h958, \h14f, \h7ff, \hfff>>),
     H(<<\h150, \h60c, \h256, \hcb2, \h3b3, \hb3c, \hc37, \h54c, \hf40, \hfff, \hfff>>),
     H(<<\h142, \h8a2, \hf98, \hd72, \h8ae, \h223, \hdda, \hb71, \h5be, \h3ff, \hfff>>),
     H(<<\h135, \h455, \h98e, \h5c2, \h327, \h6cc, \hf0e, \hde6, \h803, \h4ff, \hfff>>),
     H(<<\h128, \h8c4, \h161, \hce1, \hd6f, \h54b, \h7f6, \h108, \h119, \h4ff, \hfff>>),
     H(<<\h11c, \h592, \h761, \hc66, \h6aa, \h641, \hd5a, \h01a, \h40f, \h17f, \hfff>>),
     H(<<\h110, \ha68, \h868, \h0a7, \h530, \h515, \hf3e, \h6e6, \hcfd, \hcdf, \hfff>>),
     H(<<\h105, \h6f1, \hb5b, \hedf, \h75c, \h6bc, \hb2c, \he8a, \hed4, \h28f, \hfff>>),
     H(<<\h0fa, \hadc, \hece, \heff, \h8a0, \h890, \hf38, \h75f, \h008, \h277, \hfff>>),
     H(<<\h0f0, \h5dc, \h6b2, \h7ed, \had3, \h063, \h88a, \h600, \hf6b, \ha0b, \hfff>>),
     H(<<\h0e6, \h7a5, \ha25, \hda4, \h106, \h3de, \h149, \h5d5, \hb18, \hcdb, \hfff>>),
     H(<<\h0dc, \hff1, \h15b, \h14e, \hedd, \he6f, \hc3a, \ha53, \h53f, \h2e4, \hfff>>),
     H(<<\h0d3, \he7a, \h392, \h431, \h239, \h9f9, \haae, \h2e0, \hf86, \h8f8, \hfff>>),
     H(<<\h0cb, \h2ff, \h529, \heb7, \h1e4, \h158, \h2cc, \hcd5, \ha1e, \he26, \hfff>>),
     H(<<\h0c2, \hd41, \h5c3, \hdb9, \h74a, \hb32, \ha51, \h840, \hc0b, \h67e, \hdff>>),
     H(<<\h0ba, \hd03, \he7d, \h883, \hf69, \had5, \hb0a, \h186, \h184, \he06, \hbff>>),
     H(<<\h0b3, \h20d, \h03b, \h2c3, \h43d, \h482, \h9ab, \hd60, \h75f, \h0cc, \h5ff>>),
     H(<<\h0ab, \hc25, \h204, \he02, \h828, \hd73, \hc6e, \h80b, \hcdb, \h1a9, \h5bf>>),
     H(<<\h0a4, \hb16, \hf74, \hee4, \hbb2, \h040, \ha1e, \hc6c, \h15f, \hbbf, \h2df>>),
     H(<<\h09d, \heaf, \h736, \hac1, \hf56, \h9de, \hb1b, \h5ae, \h3f3, \h6c1, \h30f>>),
     H(<<\h097, \h6bd, \h995, \h2c7, \haa9, \h57f, \h593, \h7d7, \h90e, \hf65, \h037>>),
     H(<<\h091, \h312, \h719, \h22e, \haa6, \h064, \hb73, \ha22, \hd0b, \hd4f, \h2bf>>),
     H(<<\h08b, \h380, \hf35, \h586, \h68c, \h46c, \h91c, \h49a, \h2f8, \he96, \h7b9>>),
     H(<<\h085, \h7dd, \hf01, \h17e, \hfa2, \h159, \h529, \h128, \h39f, \h647, \h3e6>>) >>

maxExpArray(k) == maxExpTable[k + 1]

(***************************************************************************)
(* What a call leaves behind besides its value: the largest intermediate   *)
(* result of its arithmetic (peak), whether a difference went below zero   *)
(* (neg), and what power() and ln() were called with and returned.         *)
(***************************************************************************)
NoTrace ==
  [peak |-> ZERO, neg |-> FALSE, powerCalled |-> FALSE, lnCalled |-> FALSE,
   lnNumerator |-> ZERO, lnDenominator |-> ZERO,
   result |-> ZERO, precision |-> 0]

\* A failed assert (or a ZeroDivisionError) in function `at`: the call ends
\* there and returns nothing.
Raise(err, at, tr) ==
  [ok |-> FALSE, err |-> err, at |-> at, val |-> ZERO, path |-> "raised",
   trace |-> tr]

Return(val, path, tr) ==
  [ok |-> TRUE, err |-> "", at |-> "", val |-> val, path |-> path,
   trace |-> tr]

\* safeMul without its assert: the product is returned whatever its size.
safeMulUnchecked(x, y) == Return(Mul(x, y), "", NoTrace)

safeMul(x, y) ==
  IF Lt(Mul(x, y), TWO256) THEN Return(Mul(x, y), "", NoTrace)
  ELSE Raise("AssertionError", "safeMul", NoTrace)

safeAdd(x, y) ==
  IF Lt(Add(x, y), TWO256) THEN Return(Add(x, y), "", NoTrace)
  ELSE Raise("AssertionError", "safeAdd", NoTrace)

safeSub(x, y) ==
  IF Ge(x, y) THEN Return(Sub(x, y), "", NoTrace)
  ELSE Raise("AssertionError", "safeSub", NoTrace)

\* res |= s, for s a power of two.
BitOr(res, s) == IF (res \div s) % 2 = 1 THEN res ELSE res + s

RECURSIVE floorLog2Halve(_, _)
floorLog2Halve(_n, res) ==
  IF Gt(_n, ONE) THEN floorLog2Halve(Shr(_n, 1), res + 1) ELSE res

\* floorLog2's shift sequence with _n > (ONE << s) for _n >= (ONE << s).
RECURSIVE floorLog2ShiftStrict(_, _, _)
floorLog2ShiftStrict(_n, res, k) ==
  IF k = 8 THEN res
  ELSE LET s == 2 ^ (8 - 1 - k)
       IN  IF Gt(_n, Shl(ONE, s))
           THEN floorLog2ShiftStrict(Shr(_n, s), BitOr(res, s), k + 1)
           ELSE floorLog2ShiftStrict(_n, res, k + 1)

\* for s in [1 << (8 - 1 - k) for k in range(8)]
RECURSIVE floorLog2Shift(_, _, _)
floorLog2Shift(_n, res, k) ==
  IF k = 8 THEN res
  ELSE LET s == 2 ^ (8 - 1 - k)
       IN  IF Ge(_n, Shl(ONE, s))
           THEN floorLog2Shift(Shr(_n, s), BitOr(res, s), k + 1)
           ELSE floorLog2Shift(_n, res, k + 1)

floorLog2(_n) ==
  IF Lt(_n, FromInt(256)) THEN floorLog2Halve(_n, 0)
  ELSE floorLog2Shift(_n, 0, 0)

\* One pass of ln's loop; st = [x, res, peak].
lnPass(st, i) ==
  With(Mul(st.x, st.x), LAMBDA sq :
  With(Div(sq, FIXED_1), LAMBDA x :
    IF Ge(x, FIXED_2)
    THEN [x |-> Shr(x, 1), res |-> Add(st.res, Shl(ONE, i - 1)),
          peak |-> MaxOf(st.peak, sq)]
    ELSE [x |-> x, res |-> st.res, peak |-> MaxOf(st.peak, sq)]))

\* for i in range(MAX_PRECISION, 0, -1): the passes i = hi, ..., lo in turn.
RECURSIVE lnLoop(_, _, _)
lnLoop(st, hi, lo) ==
  IF hi < lo THEN st
  ELSE IF hi = lo THEN lnPass(st, hi)
  ELSE LET mid  == (hi + lo) \div 2
           half == lnLoop(st, hi, mid + 1)
       IN  Eval(half, lnLoop(half, mid, lo))

\* Lines 258-261: the integer part of log2(x); st = [x, res, peak].
lnInteger(x, prod) ==
  IF Ge(x, FIXED_2)
  THEN With(floorLog2(Div(x, FIXED_1)), LAMBDA count :
         [x |-> Shr(x, count), res |-> Mul(FromInt(count), FIXED_1),
          peak |-> prod])
  ELSE [x |-> x, res |-> ZERO, peak |-> prod]

ln(_numerator, _denominator) ==
  With([NoTrace EXCEPT !.lnCalled = TRUE, !.lnNumerator = _numerator,
                       !.lnDenominator = _denominator], LAMBDA tr :
    IF Gt(_numerator, MAX_NUM) THEN Raise("AssertionError", "ln", tr)
    ELSE IF _denominator = ZERO THEN Raise("ZeroDivisionError", "ln", tr)
    ELSE
      With(Mul(_numerator, FIXED_1), LAMBDA prod :
      With(lnInteger(Div(prod, _denominator), prod), LAMBDA st1 :
      With(IF Gt(st1.x, FIXED_1) THEN lnLoop(st1, MAX_PRECISION, 1) ELSE st1,
           LAMBDA st2 :
      With(Mul(st2.res, LN2_MANTISSA), LAMBDA scaled :
        Return(Shr(scaled, LN2_EXPONENT), "",
               [tr EXCEPT !.peak = MaxOf(st2.peak, scaled)]))))))

\* The search with lo = mid + 1 for lo = mid.
RECURSIVE findPositionLoopSkip(_, _, _, _)
findPositionLoopSkip(_x, lo, hi, n) ==
  IF lo + 1 < hi
  THEN LET mid == (lo + hi) \div 2
       IN  IF Ge(maxExpArray(mid), _x)
           THEN findPositionLoopSkip(_x, mid + 1, hi, n + 1)
           ELSE findPositionLoopSkip(_x, lo, mid, n + 1)
  ELSE [lo |-> lo, hi |-> hi, iterations |-> n]

RECURSIVE findPositionLoop(_, _, _, _)
findPositionLoop(_x, lo, hi, n) ==
  IF lo + 1 < hi
  THEN LET mid == (lo + hi) \div 2
       IN  IF Ge(maxExpArray(mid), _x) THEN findPositionLoop(_x, mid, hi, n + 1)
           ELSE findPositionLoop(_x, lo, mid, n + 1)
  ELSE [lo |-> lo, hi |-> hi, iterations |-> n]

\* pos is the value returned, iterations the number of passes of the loop.
findPositionInMaxExpArray(_x) ==
  LET w == findPositionLoop(_x, MIN_PRECISION, MAX_PRECISION, 0)
  IN  IF Ge(maxExpArray(w.hi), _x)
        THEN [ok |-> TRUE, pos |-> w.hi, iterations |-> w.iterations]
      ELSE IF Ge(maxExpArray(w.lo), _x)
        THEN [ok |-> TRUE, pos |-> w.lo, iterations |-> w.iterations]
      ELSE [ok |-> FALSE, pos |-> 0, iterations |-> w.iterations]

(***************************************************************************)
(* The 32 factors of fixedExp's unrolled series (lines 329-391) and its    *)
(* divisor (line 393).                                                     *)
(***************************************************************************)
fixedExpDivisor == H(<<\h006, \h885, \h89c, \hc0e, \h950, \h5e2, \hf2f, \hee5, \h580, \h000, \h000>>)
coefficients ==
  << H(<<\h003, \h442, \hc4e, \h607, \h4a8, \h2f1, \h797, \hf72, \hac0, \h000, \h000>>),
     H(<<\h001, \h16b, \h96f, \h757, \hc38, \h0fb, \h287, \hfd0, \he40, \h000, \h000>>),
     H(<<\h45a, \he5b, \hdd5, \hf0e, \h03e, \hca1, \hff4, \h390, \h000, \h000>>),
     H(<<\h0de, \hfab, \hf91, \h302, \hcd9, \h5b9, \hffd, \ha50, \h000, \h000>>),
     H(<<\h025, \h29c, \ha98, \h32b, \h224, \h39e, \hfff, \h9b8, \h000, \h000>>),
     H(<<\h005, \h4f1, \hcf1, \h2bd, \h04e, \h516, \hb6d, \ha88, \h000, \h000>>),
     H(<<\ha9e, \h39e, \h257, \ha09, \hca2, \hd6d, \hb51, \h000, \h000>>),
     H(<<\h12e, \h066, \he7b, \h839, \hfa0, \h50c, \h309, \h000, \h000>>),
     H(<<\h01e, \h33d, \h7d9, \h26c, \h329, \ha1a, \hd1a, \h800, \h000>>),
     H(<<\h002, \hbee, \h513, \hbdb, \h4a6, \hb19, \hb5f, \h800, \h000>>),
     H(<<\h3a9, \h316, \hfa7, \h9b8, \h8ec, \hcf2, \ha00, \h000>>),
     H(<<\h048, \h177, \hebe, \h1fa, \h812, \h375, \h200, \h000>>),
     H(<<\h005, \h263, \hfe9, \h024, \h2dc, \hbac, \hf00, \h000>>),
     H(<<\h57e, \h220, \h99c, \h030, \hd94, \h100, \h000>>),
     H(<<\h057, \he22, \h099, \hc03, \h0d9, \h410, \h000>>),
     H(<<\h005, \h2b6, \hb54, \h569, \h976, \h310, \h000>>),
     H(<<\h498, \h5f6, \h769, \h6bf, \h748, \h000>>),
     H(<<\h03d, \hea1, \h2ea, \h99e, \h498, \h000>>),
     H(<<\h003, \h188, \h0f2, \h214, \hb6e, \h000>>),
     H(<<\h25b, \hcff, \h56e, \hb36, \h000>>),
     H(<<\h01b, \h722, \he10, \hab1, \h000>>),
     H(<<\h001, \h317, \hc70, \h077, \h000>>),
     H(<<\h0cb, \ha84, \haaf, \ha00>>),
     H(<<\h008, \h257, \h3a0, \ha00>>),
     H(<<\h503, \h5ad, \h900>>),
     H(<<\h02f, \h881, \hb00>>),
     H(<<\h001, \hb29, \h340>>),
     H(<<\h0ef, \hc40>>),
     H(<<\h007, \hfe0>>),
     H(<<\h420>>),
     H(<<\h021>>),
     H(<<\h001>>) >>

\* The pair of statements  xi = (xi * _x) >> _precision; res += xi * c
\* for the k-th factor c; st = [xi, res, peak].
fixedExpTerm(st, _x, _precision, k) ==
  LET sq   == Mul(st.xi, _x)
      xi   == Shr(sq, _precision)
      term == Mul(xi, coefficients[k])
      res  == Add(st.res, term)
  IN  [xi |-> xi, res |-> res,
       peak |-> MaxOf(MaxOf(st.peak, sq), MaxOf(term, res))]

\* The pairs lo..hi in turn.
RECURSIVE fixedExpTerms(_, _, _, _, _)
fixedExpTerms(st, _x, _precision, lo, hi) ==
  IF lo > hi THEN st
  ELSE IF lo = hi THEN fixedExpTerm(st, _x, _precision, lo)
  ELSE LET mid  == (lo + hi) \div 2
           half == fixedExpTerms(st, _x, _precision, lo, mid)
       IN  Eval(half, fixedExpTerms(half, _x, _precision, mid + 1, hi))

\* fixedExp without the leading term ONE << _precision of the series.
fixedExpNoOne(_x, _precision) ==
  With(fixedExpTerms([xi |-> _x, res |-> ZERO, peak |-> ZERO],
                     _x, _precision, 1, Len(coefficients)), LAMBDA st :
  With(Add(Div(st.res, fixedExpDivisor), _x), LAMBDA val :
    [val |-> val, peak |-> MaxOf(st.peak, val)]))

\* [val, peak]
fixedExp(_x, _precision) ==
  With(fixedExpTerms([xi |-> _x, res |-> ZERO, peak |-> ZERO],
                     _x, _precision, 1, Len(coefficients)), LAMBDA st :
  With(Add(Add(Div(st.res, fixedExpDivisor), _x), Shl(ONE, _precision)),
       LAMBDA val :
    [val |-> val, peak |-> MaxOf(st.peak, val)]))

\* power taking the logarithm of _baseD / _baseN for _baseN / _baseD.
powerSwapped(_baseN, _baseD, _expN, _expD) ==
  With(ln(_baseD, _baseN), LAMBDA l :
    IF ~l.ok THEN [l EXCEPT !.trace.powerCalled = TRUE]
    ELSE
      With(Mul(l.val, FromInt(_expN)), LAMBDA prod :
      With(Div(prod, FromInt(_expD)), LAMBDA lnBaseTimesExp :
      With(findPositionInMaxExpArray(lnBaseTimesExp), LAMBDA found :
      With([l.trace EXCEPT !.powerCalled = TRUE,
                           !.peak = MaxOf(l.trace.peak, prod)], LAMBDA tr :
        IF ~found.ok
        THEN Raise("AssertionError", "findPositionInMaxExpArray", tr)
        ELSE
          With(fixedExp(Shr(lnBaseTimesExp, MAX_PRECISION - found.pos),
                        found.pos), LAMBDA e :
            Return(e.val, "",
                   [tr EXCEPT !.peak = MaxOf(tr.peak, e.peak),
                              !.result = e.val,
                              !.precision = found.pos])))))))

power(_baseN, _baseD, _expN, _expD) ==
  With(ln(_baseN, _baseD), LAMBDA l :
    IF ~l.ok THEN [l EXCEPT !.trace.powerCalled = TRUE]
    ELSE
      With(Mul(l.val, FromInt(_expN)), LAMBDA prod :
      With(Div(prod, FromInt(_expD)), LAMBDA lnBaseTimesExp :
      With(findPositionInMaxExpArray(lnBaseTimesExp), LAMBDA found :
      With([l.trace EXCEPT !.powerCalled = TRUE,
                           !.peak = MaxOf(l.trace.peak, prod)], LAMBDA tr :
        IF ~found.ok
        THEN Raise("AssertionError", "findPositionInMaxExpArray", tr)
        ELSE
          With(fixedExp(Shr(lnBaseTimesExp, MAX_PRECISION - found.pos),
                        found.pos), LAMBDA e :
            Return(e.val, "",
                   [tr EXCEPT !.peak = MaxOf(tr.peak, e.peak),
                              !.result = e.val,
                              !.precision = found.pos])))))))

\* The general case of calculatePurchaseReturn returning temp for
\* temp - _supply.
purchaseByPowerNoSub(_supply, _reserveBalance, _reserveRatio, _depositAmount) ==
  With(safeAdd(_depositAmount, _reserveBalance), LAMBDA baseN :
    IF ~baseN.ok THEN baseN
    ELSE
      With(power(baseN.val, _reserveBalance, _reserveRatio, MAX_CRR),
           LAMBDA p :
        IF ~p.ok THEN p
        ELSE
          With(safeMul(_supply, p.val), LAMBDA m :
            IF ~m.ok THEN [m EXCEPT !.trace = p.trace]
            ELSE
              With(Shr(m.val, p.trace.precision), LAMBDA temp :
              With([p.trace EXCEPT
                      !.peak = MaxOf(MaxOf(baseN.val, p.trace.peak), m.val),
                      !.neg  = Lt(temp, _supply)], LAMBDA tr :
                Return(temp, "power", tr))))))

\* Lines 184-187: the general case of calculatePurchaseReturn.
purchaseByPower(_supply, _reserveBalance, _reserveRatio, _depositAmount) ==
  With(safeAdd(_depositAmount, _reserveBalance), LAMBDA baseN :
    IF ~baseN.ok THEN baseN
    ELSE
      With(power(baseN.val, _reserveBalance, _reserveRatio, MAX_CRR),
           LAMBDA p :
        IF ~p.ok THEN p
        ELSE
          With(safeMul(_supply, p.val), LAMBDA m :
            IF ~m.ok THEN [m EXCEPT !.trace = p.trace]
            ELSE
              With(Shr(m.val, p.trace.precision), LAMBDA temp :
              With([p.trace EXCEPT
                      !.peak = MaxOf(MaxOf(baseN.val, p.trace.peak), m.val),
                      !.neg  = Lt(temp, _supply)], LAMBDA tr :
                \* temp - _supply is a plain difference: below zero it
                \* returns the negative number, held as its magnitude with
                \* trace.neg set.
                IF Lt(temp, _supply)
                THEN Return(Sub(_supply, temp), "power", tr)
                ELSE Return(Sub(temp, _supply), "power", tr))))))

\* calculatePurchaseReturn without the special case of 100% CRR.
calculatePurchaseReturnNoLinear(_supply, _reserveBalance, _reserveRatio, _depositAmount) ==
  IF ~(Gt(_supply, ZERO) /\ Gt(_reserveBalance, ZERO)
        /\ _reserveRatio > 0 /\ _reserveRatio <= MAX_CRR)
  THEN Raise("AssertionError", "calculatePurchaseReturn", NoTrace)
  ELSE IF _depositAmount = ZERO THEN Return(ZERO, "zero", NoTrace)
  ELSE purchaseByPower(_supply, _reserveBalance, _reserveRatio, _depositAmount)

calculatePurchaseReturn(_supply, _reserveBalance, _reserveRatio, _depositAmount) ==
  IF ~(Gt(_supply, ZERO) /\ Gt(_reserveBalance, ZERO)
        /\ _reserveRatio > 0 /\ _reserveRatio <= MAX_CRR)
  THEN Raise("AssertionError", "calculatePurchaseReturn", NoTrace)
  ELSE IF _depositAmount = ZERO THEN Return(ZERO, "zero", NoTrace)
  ELSE IF _reserveRatio = MAX_CRR
  THEN With(safeMul(_supply, _depositAmount), LAMBDA m :
         IF ~m.ok THEN m
         ELSE Return(Div(m.val, _reserveBalance), "linear",
                     [NoTrace EXCEPT !.peak = m.val]))
  ELSE purchaseByPower(_supply, _reserveBalance, _reserveRatio, _depositAmount)

\* Lines 218-222: the general case of calculateSaleReturn.
saleByPower(_supply, _reserveBalance, _reserveRatio, _sellAmount) ==
  With(Sub(_supply, _sellAmount), LAMBDA baseD :
  With(power(_supply, baseD, MAX_CRR, _reserveRatio), LAMBDA p :
    IF ~p.ok THEN p
    ELSE
      With(safeMul(_reserveBalance, p.val), LAMBDA temp1 :
        IF ~temp1.ok THEN [temp1 EXCEPT !.trace = p.trace]
        ELSE
          With(Shl(_reserveBalance, p.trace.precision), LAMBDA temp2 :
          With([p.trace EXCEPT
                  !.peak = MaxOf(MaxOf(p.trace.peak, temp1.val), temp2),
                  !.neg  = Lt(temp1.val, temp2)], LAMBDA tr :
            \* (temp1 - temp2) / result floors: below zero it returns the
            \* negative number, held as its magnitude with trace.neg set.
            IF Lt(temp1.val, temp2)
            THEN Return(Div(Add(Sub(temp2, temp1.val), Sub(p.val, ONE)),
                            p.val), "power", tr)
            ELSE Return(Div(Sub(temp1.val, temp2), p.val), "power", tr))))))

\* calculateSaleReturn with the special case of 100% CRR tried before that
\* of selling the entire supply.
calculateSaleReturnLinearFirst(_supply, _reserveBalance, _reserveRatio, _sellAmount) ==
  IF ~(Gt(_supply, ZERO) /\ Gt(_reserveBalance, ZERO)
        /\ _reserveRatio > 0 /\ _reserveRatio <= MAX_CRR
        /\ Le(_sellAmount, _supply))
  THEN Raise("AssertionError", "calculateSaleReturn", NoTrace)
  ELSE IF _sellAmount = ZERO THEN Return(ZERO, "zero", NoTrace)
  ELSE IF _reserveRatio = MAX_CRR
  THEN With(safeMul(_reserveBalance, _sellAmount), LAMBDA m :
         IF ~m.ok THEN m
         ELSE Return(Div(m.val, _supply), "linear",
                     [NoTrace EXCEPT !.peak = m.val]))
  ELSE IF _sellAmount = _supply THEN Return(_reserveBalance, "all", NoTrace)
  ELSE saleByPower(_supply, _reserveBalance, _reserveRatio, _sellAmount)

\* calculateSaleReturn with the special case of selling the entire supply
\* tried before the validation of the arguments.
calculateSaleReturnAllFirst(_supply, _reserveBalance, _reserveRatio, _sellAmount) ==
  IF _sellAmount = _supply THEN Return(_reserveBalance, "all", NoTrace)
  ELSE IF ~(Gt(_supply, ZERO) /\ Gt(_reserveBalance, ZERO)
        /\ _reserveRatio > 0 /\ _reserveRatio <= MAX_CRR
        /\ Le(_sellAmount, _supply))
  THEN Raise("AssertionError", "calculateSaleReturn", NoTrace)
  ELSE IF _sellAmount = ZERO THEN Return(ZERO, "zero", NoTrace)
  ELSE IF _reserveRatio = MAX_CRR
  THEN With(safeMul(_reserveBalance, _sellAmount), LAMBDA m :
         IF ~m.ok THEN m
         ELSE Return(Div(m.val, _supply), "linear",
                     [NoTrace EXCEPT !.peak = m.val]))
  ELSE saleByPower(_supply, _reserveBalance, _reserveRatio, _sellAmount)

calculateSaleReturn(_supply, _reserveBalance, _reserveRatio, _sellAmount) ==
  IF ~(Gt(_supply, ZERO) /\ Gt(_reserveBalance, ZERO)
        /\ _reserveRatio > 0 /\ _reserveRatio <= MAX_CRR
        /\ Le(_sellAmount, _supply))
  THEN Raise("AssertionError", "calculateSaleReturn", NoTrace)
  ELSE IF _sellAmount = ZERO THEN Return(ZERO, "zero", NoTrace)
  ELSE IF _sellAmount = _supply THEN Return(_reserveBalance, "all", NoTrace)
  ELSE IF _reserveRatio = MAX_CRR
  THEN With(safeMul(_reserveBalance, _sellAmount), LAMBDA m :
         IF ~m.ok THEN m
         ELSE Return(Div(m.val, _supply), "linear",
                     [NoTrace EXCEPT !.peak = m.val]))
  ELSE saleByPower(_supply, _reserveBalance, _reserveRatio, _sellAmount)

(***************************************************************************)
(* Bounds of the inputs.                                                   *)
(***************************************************************************)
MaxSupplyScale == 2
MaxSmallValue == 3
MaxStep == 2
MaxSmallN == 300
MaxFindBit == 140

\* The width of a word of the contract the port follows: the 256 of
\* safeMul's and safeAdd's 1 << 256.
WordBits == 256

(***************************************************************************)
(* The state: a pool (supply, reserveBalance, reserveRatio), the amount of *)
(* the call in hand, the function called last (fn) with its outcome (ret), *)
(* and, once a second call follows a first, the first call (first).  The   *)
(* formula keeps no state of its own besides maxExpArray.                  *)
(***************************************************************************)
VARIABLES supply, reserveBalance, reserveRatio, amount, phase, fn, ret, first

vars == <<supply, reserveBalance, reserveRatio, amount, phase, fn, ret, first>>

NoCall ==
  [ok |-> FALSE, err |-> "", at |-> "", val |-> ZERO, path |-> "none",
   trace |-> NoTrace]

NoFirst == [fn |-> "", amount |-> ZERO, ret |-> NoCall]

Idle ==
  /\ phase = "idle"
  /\ fn = ""
  /\ ret = NoCall
  /\ first = NoFirst

Purchase ==
  /\ phase = "idle"
  /\ fn' = "calculatePurchaseReturn"
  /\ ret' = calculatePurchaseReturn(supply, reserveBalance, reserveRatio, amount)
  /\ phase' = "called"
  /\ UNCHANGED <<supply, reserveBalance, reserveRatio, amount, first>>

Sale ==
  /\ phase = "idle"
  /\ fn' = "calculateSaleReturn"
  /\ ret' = calculateSaleReturn(supply, reserveBalance, reserveRatio, amount)
  /\ phase' = "called"
  /\ UNCHANGED <<supply, reserveBalance, reserveRatio, amount, first>>

\* The trader who has just bought sells the tokens received straight back:
\* the pool holds the deposit and the new tokens, and nothing else happened.
SellBack ==
  /\ phase = "called"
  /\ fn = "calculatePurchaseReturn"
  /\ ret.ok
  /\ ~ret.trace.neg
  /\ supply' = Add(supply, ret.val)
  /\ reserveBalance' = Add(reserveBalance, amount)
  /\ amount' = ret.val
  /\ fn' = "calculateSaleReturn"
  /\ ret' = calculateSaleReturn(supply', reserveBalance', reserveRatio, amount')
  /\ first' = [fn |-> fn, amount |-> amount, ret |-> ret]
  /\ phase' = "soldBack"
  /\ UNCHANGED reserveRatio

\* The same function on the same pool with a larger amount.
PurchaseAgain ==
  /\ phase = "called"
  /\ fn = "calculatePurchaseReturn"
  /\ \E k \in 1..MaxStep :
       /\ amount' = Add(amount, FromInt(k))
       /\ ret' = calculatePurchaseReturn(supply, reserveBalance, reserveRatio,
                                         amount')
  /\ first' = [fn |-> fn, amount |-> amount, ret |-> ret]
  /\ phase' = "again"
  /\ UNCHANGED <<supply, reserveBalance, reserveRatio, fn>>

SaleAgain ==
  /\ phase = "called"
  /\ fn = "calculateSaleReturn"
  /\ \E k \in 1..MaxStep :
       /\ amount' = Add(amount, FromInt(k))
       /\ ret' = calculateSaleReturn(supply, reserveBalance, reserveRatio,
                                     amount')
  /\ first' = [fn |-> fn, amount |-> amount, ret |-> ret]
  /\ phase' = "again"
  /\ UNCHANGED <<supply, reserveBalance, reserveRatio, fn>>

CallFloorLog2 ==
  /\ phase = "idle"
  /\ fn' = "floorLog2"
  /\ ret' = [res |-> floorLog2(amount)]
  /\ phase' = "called"
  /\ UNCHANGED <<supply, reserveBalance, reserveRatio, amount, first>>

CallFindPosition ==
  /\ phase = "idle"
  /\ fn' = "findPositionInMaxExpArray"
  /\ ret' = findPositionInMaxExpArray(amount)
  /\ phase' = "called"
  /\ UNCHANGED <<supply, reserveBalance, reserveRatio, amount, first>>

(***************************************************************************)
(* Spec: trades.  Pools and amounts from 1000 up to beyond what ln takes,  *)
(* ratios from the smallest to 100%.                                       *)
(***************************************************************************)
Supplies == {Shl(FromInt(1000), 62 * k) : k \in 0..MaxSupplyScale}
Reserves == {FromInt(1000), Shl(FromInt(1000), 62)}
Ratios   == {1, 500000, 900000, MAX_CRR}
Amounts  == {ONE, FromInt(500), FromInt(1000), Shl(FromInt(1000), 62)}

Init ==
  /\ Idle
  /\ supply \in Supplies
  /\ reserveBalance \in Reserves
  /\ reserveRatio \in Ratios
  /\ amount \in Amounts

Next == Purchase \/ Sale \/ SellBack

Spec == Init /\ [][Next]_vars

(***************************************************************************)
(* SpecShortcut: the calls that validation and the shortcuts decide:       *)
(* invalid arguments, amount 0, the whole supply, 100% CRR; values from 0  *)
(* to 2^200, whose products pass 2^256.                                    *)
(***************************************************************************)
Values ==
  {FromInt(n) : n \in 0..MaxSmallValue} \cup {FromInt(1000), Shl(ONE, 200)}

InitShortcut ==
  /\ Idle
  /\ supply \in Values
  /\ reserveBalance \in Values
  /\ reserveRatio \in {0, 500000, MAX_CRR, MAX_CRR + 1}
  /\ amount \in Values \cup {FromInt(7)}
  /\ reserveRatio # 500000 \/ amount \in {ZERO, supply}

NextShortcut == Purchase \/ Sale

SpecShortcut == InitShortcut /\ [][NextShortcut]_vars

(***************************************************************************)
(* SpecMono: a call and the same call with a larger amount.                *)
(* BoundaryDeposit is the largest deposit into a reserve of 1 at 999999    *)
(* ppm for which power() chooses precision 42.                             *)
(***************************************************************************)
BoundaryDeposit == H(<<\h02c, \h966, \hef7, \hf0e, \h6b6>>)

InitMono ==
  /\ Idle
  /\ supply \in {ONE, FromInt(1000)}
  /\ reserveBalance \in {ONE, FromInt(1000)}
  /\ reserveRatio \in {999999, MAX_CRR}
  /\ amount \in {ZERO, ONE, FromInt(998), BoundaryDeposit}

NextMono == Purchase \/ Sale \/ PurchaseAgain \/ SaleAgain

SpecMono == InitMono /\ [][NextMono]_vars

(***************************************************************************)
(* SpecFloorLog2: floorLog2 on the small numbers and around every power of *)
(* two of a word.                                                          *)
(***************************************************************************)
Log2Inputs ==
  {FromInt(n) : n \in 1..MaxSmallN}
    \cup {Shl(ONE, k) : k \in 0..(WordBits - 1)}
    \cup {Sub(Shl(ONE, k), ONE) : k \in 1..WordBits}
    \cup {Add(Shl(ONE, k), ONE) : k \in 1..(WordBits - 1)}

InitFloorLog2 ==
  /\ Idle
  /\ supply = ZERO
  /\ reserveBalance = ZERO
  /\ reserveRatio = 0
  /\ amount \in Log2Inputs

SpecFloorLog2 == InitFloorLog2 /\ [][CallFloorLog2]_vars

(***************************************************************************)
(* SpecFindPosition: findPositionInMaxExpArray at, just below and just     *)
(* above every entry of the table, and at the powers of two.               *)
(***************************************************************************)
FindInputs ==
  {ZERO}
    \cup {maxExpArray(k) : k \in MIN_PRECISION..MAX_PRECISION}
    \cup {Sub(maxExpArray(k), ONE) : k \in MIN_PRECISION..MAX_PRECISION}
    \cup {Add(maxExpArray(k), ONE) : k \in MIN_PRECISION..MAX_PRECISION}
    \cup {Shl(ONE, k) : k \in 0..MaxFindBit}

InitFindPosition ==
  /\ Idle
  /\ supply = ZERO
  /\ reserveBalance = ZERO
  /\ reserveRatio = 0
  /\ amount \in FindInputs

SpecFindPosition == InitFindPosition /\ [][CallFindPosition]_vars

(***************************************************************************)
(* Properties.                                                             *)
(***************************************************************************)
Purchased == phase = "called" /\ fn = "calculatePurchaseReturn"
Sold      == phase = "called" /\ fn = "calculateSaleReturn"

\* The arguments of the call in hand pass the assert of its function.
ValidPool ==
  /\ Gt(supply, ZERO)
  /\ Gt(reserveBalance, ZERO)
  /\ reserveRatio \in 1..MAX_CRR

\* C1 (round-trip bound): when a purchase with deposit d returned t and the
\* t tokens are sold straight back to the pool the purchase left (supply
\* s + t, reserve r + d, same ratio), a sale that returns, returns at most d
\* (and not a negative number).
RoundTripBound ==
  (phase = "soldBack" /\ ret.ok) =>
    (~ret.trace.neg /\ Le(ret.val, first.amount))

\* A round trip through power() on both legs that gives back some of the
\* deposit, and less than all of it.
RoundTripThroughPower ==
  /\ phase = "soldBack"
  /\ first.ret.path = "power"
  /\ ret.ok
  /\ ret.path = "power"
  /\ Gt(ret.val, ZERO)
  /\ Lt(ret.val, first.amount)

\* C2 (monotonicity): for a fixed pool, the same function called with a
\* larger amount returns at least as much, whenever both calls return.
Monotonicity ==
  (phase = "again" /\ first.ret.ok /\ ret.ok) => Le(first.ret.val, ret.val)

\* C3 (no silent overflow): a call that returns a value has had every
\* intermediate result of its arithmetic inside [0, 2^256): none reached
\* 2^256 and no difference went below zero.
NoSilentOverflow ==
  ret.ok => (Lt(ret.trace.peak, TWO256) /\ ~ret.trace.neg)

\* A call through power() that returns after an intermediate result of 255
\* bits or more.
ReturnsNearTheTop ==
  /\ ret.ok
  /\ ret.path = "power"
  /\ Ge(ret.trace.peak, Shl(ONE, WordBits - 1))
  /\ Lt(ret.trace.peak, TWO256)

\* C4 (selling the entire supply): with supply > 0, reserve > 0 and a ratio
\* in 1..MAX_CRR, calculateSaleReturn(s, r, c, s) returns, and returns exactly
\* r.
SellAllDrainsReserve ==
  (Sold /\ ValidPool /\ amount = supply) =>
    (ret.ok /\ ret.val = reserveBalance)

\* The entire supply sold at 100% CRR from a pool whose supply times reserve
\* is 2^256 or more.
SellAllBeyondWord ==
  /\ Sold
  /\ ValidPool
  /\ amount = supply
  /\ reserveRatio = MAX_CRR
  /\ Ge(Mul(supply, reserveBalance), TWO256)
  /\ ret.ok
  /\ ret.val = reserveBalance

\* q is the floor of n / d.
IsFloorDiv(q, n, d) == Le(Mul(q, d), n) /\ Lt(n, Mul(Add(q, ONE), d))

\* C5 (linear shortcut at 100% CRR): at ratio MAX_CRR a purchase with
\* s * d < 2^256 returns floor(s * d / r), a sale of a <= s with r * a < 2^256
\* returns floor(r * a / s), and no call at that ratio enters power().
LinearAtFullRatio ==
  (phase = "called" /\ ValidPool /\ reserveRatio = MAX_CRR) =>
    /\ ~ret.trace.powerCalled
    /\ ~ret.trace.lnCalled
    /\ (fn = "calculatePurchaseReturn" /\ Lt(Mul(supply, amount), TWO256)) =>
         (ret.ok /\ IsFloorDiv(ret.val, Mul(supply, amount), reserveBalance))
    /\ (fn = "calculateSaleReturn" /\ Le(amount, supply)
          /\ Lt(Mul(reserveBalance, amount), TWO256)) =>
         (ret.ok /\ IsFloorDiv(ret.val, Mul(reserveBalance, amount), supply))

\* A purchase at 100% CRR whose division leaves a remainder.
LinearPurchaseRoundsDown ==
  /\ Purchased
  /\ reserveRatio = MAX_CRR
  /\ ret.ok
  /\ ret.path = "linear"
  /\ Lt(Mul(ret.val, reserveBalance), Mul(supply, amount))

\* C6 (validation precedes everything): a call with supply 0, reserve 0,
\* ratio 0 or ratio above MAX_CRR, and a sale of more than the supply, fails
\* in the assert of the function called, before any arithmetic and whatever
\* the amount: amount 0 and sellAmount = supply included.
ValidationFirst ==
  (phase = "called"
     /\ (~ValidPool \/ (fn = "calculateSaleReturn" /\ Gt(amount, supply)))) =>
    /\ ~ret.ok
    /\ ret.err = "AssertionError"
    /\ ret.at = fn
    /\ ret.val = ZERO
    /\ ret.trace = NoTrace

\* A sale of the entire supply, with a ratio above MAX_CRR, rejected.
InvalidSellAllRejected ==
  /\ Sold
  /\ amount = supply
  /\ Gt(supply, ZERO)
  /\ Gt(reserveBalance, ZERO)
  /\ reserveRatio > MAX_CRR
  /\ ~ret.ok
  /\ ret.at = "calculateSaleReturn"

\* k is what a scan of the table from the top down stops at: an index of
\* 32..127 with maxExpArray[k] >= x above which every entry is below x.
IsLargestPosition(k, x) ==
  /\ k \in MIN_PRECISION..MAX_PRECISION
  /\ Ge(maxExpArray(k), x)
  /\ \A j \in (k + 1)..MAX_PRECISION : Lt(maxExpArray(j), x)

\* C7 (precision selection): findPositionInMaxExpArray(x) returns the largest
\* index k of 32..127 with maxExpArray[k] >= x, fails exactly when
\* x > maxExpArray[32], that is when there is no such index, and its loop
\* makes at most 7 passes.
FindsLargestPosition ==
  (phase = "called" /\ fn = "findPositionInMaxExpArray") =>
    /\ ret.ok <=> Le(amount, maxExpArray(MIN_PRECISION))
    /\ ret.ok <=> \E k \in MIN_PRECISION..MAX_PRECISION : Ge(maxExpArray(k), amount)
    /\ ret.ok => IsLargestPosition(ret.pos, amount)
    /\ ret.iterations <= 7

\* A position strictly inside the table found by the seventh pass, with the
\* entry equal to x.
FoundInsideAtEntry ==
  /\ phase = "called"
  /\ fn = "findPositionInMaxExpArray"
  /\ ret.ok
  /\ ret.pos \in (MIN_PRECISION + 1)..(MAX_PRECISION - 1)
  /\ maxExpArray(ret.pos) = amount
  /\ ret.iterations = 7

\* C8 (the sale return is bounded by the reserve): a sale that returns,
\* returns a value of [0, r]; the result of fixedExp is at least
\* 2^precision, so that neither temp1 - temp2 in the sale nor
\* (supply * result >> precision) - supply in the purchase is negative.
SaleWithinReserve ==
  ret.ok =>
    /\ fn = "calculateSaleReturn" => Le(ret.val, reserveBalance)
    /\ ret.trace.powerCalled =>
         Ge(ret.trace.result, Shl(ONE, ret.trace.precision))
    /\ ~ret.trace.neg

\* A sale through power() that returns part of the reserve.
PartialSaleThroughPower ==
  /\ Sold
  /\ ret.ok
  /\ ret.path = "power"
  /\ Gt(ret.trace.result, Shl(ONE, ret.trace.precision))
  /\ Gt(ret.val, ZERO)
  /\ Lt(ret.val, reserveBalance)

\* C9 (ln's precondition): every call of ln reached from a call with valid
\* arguments has numerator >= denominator >= 1: deposit + reserve over
\* reserve with deposit > 0 in a purchase, supply over supply - sellAmount
\* with 0 < sellAmount < supply in a sale; ln never divides by zero, and a
\* numerator above MAX_NUM makes the call fail.
LnPrecondition ==
  ret.trace.lnCalled =>
    /\ Ge(ret.trace.lnNumerator, ret.trace.lnDenominator)
    /\ Ge(ret.trace.lnDenominator, ONE)
    /\ ret.err # "ZeroDivisionError"
    /\ Gt(ret.trace.lnNumerator, MAX_NUM) => (~ret.ok /\ ret.at = "ln")
    /\ fn = "calculatePurchaseReturn" =>
         /\ Gt(amount, ZERO)
         /\ ret.trace.lnNumerator = Add(amount, reserveBalance)
         /\ ret.trace.lnDenominator = reserveBalance
    /\ fn = "calculateSaleReturn" =>
         /\ Gt(amount, ZERO)
         /\ Lt(amount, supply)
         /\ ret.trace.lnNumerator = supply
         /\ ret.trace.lnDenominator = Sub(supply, amount)

\* A sale that reaches ln with supply over what is left of it, and returns.
LnOfSupplyOverRest ==
  /\ Sold
  /\ ret.trace.lnCalled
  /\ ret.trace.lnNumerator = supply
  /\ ret.trace.lnDenominator = Sub(supply, amount)
  /\ Gt(ret.trace.lnNumerator, ret.trace.lnDenominator)
  /\ ret.ok

\* C10 (floorLog2): for 1 <= n < 2^256, floorLog2(n) is the k with
\* 2^k <= n < 2^(k+1), by the halving loop below 256 and by the shifts from
\* 256 on; floorLog2(255) = 7 and floorLog2(256) = 8; the halving loop, which
\* adds one to res in each pass, makes at most 8 passes.
FloorLog2Exact ==
  (phase = "called" /\ fn = "floorLog2") =>
    /\ Le(Shl(ONE, ret.res), amount)
    /\ Lt(amount, Shl(ONE, ret.res + 1))
    /\ Lt(amount, FromInt(256)) => ret.res <= 8
    /\ amount = FromInt(255) => ret.res = 7
    /\ amount = FromInt(256) => ret.res = 8

\* floorLog2(2^256 - 1) = 255.
FloorLog2OfLargestWord ==
  /\ phase = "called"
  /\ fn = "floorLog2"
  /\ amount = Sub(TWO256, ONE)
  /\ ret.res = WordBits - 1
====
